---- MODULE Spec2Model ----
(***************************************************************************)
(* Bermudan swaption pricer (src/src/pricer.py, src/src/bbg_fetcher.py,    *)
(* src/app.py): the load -> construct -> setup -> calibrate ->             *)
(* compute_greeks lifecycle of one pricing run.                            *)
(*                                                                         *)
(* Scaling.  Dates are day serial numbers.  Discount factors are integers  *)
(* with DfOne standing for 1.0.  Model volatilities are integers on the    *)
(* grid of ExpTab (one unit = 1e-6, the floor 1e-8 is one unit), market    *)
(* volatilities and rates are in basis points.  Prices are integers.  The  *)
(* valuation oracle (QuantLib's                                            *)
(* finite-difference Hull-White engine) is a deterministic price function  *)
(* of its inputs that may also fail on any call.  The optimizers of scipy  *)
(* (Nelder-Mead, brentq) evaluate the objective at trial points of the     *)
(* grid and return the best point they tried (the bracketing root).        *)
(***************************************************************************)
EXTENDS Integers, Sequences, FiniteSets, TLC

VARIABLES
  cfg,          \* the run's configuration and market inputs (never changes)
  pc,           \* position of the run in its lifecycle
  err,          \* what aborted the run ("" while it is alive)
  bbg_npv,      \* market_data["bbg_npv"] / self.bbg_npv
  eval_date,    \* ql.Settings.instance().evaluationDate (ambient, global)
  node_dates,   \* self.node_dates
  node_dfs,     \* self.node_dfs
  ex_dates,     \* self.ex_dates
  basket,       \* self.basket
  a,            \* self.a
  sigma_atm,    \* self.sigma_atm
  sigma_inv,    \* self.sigma_inv
  delta_spread, \* self.delta_spread
  sigma_total,  \* self.sigma_total
  npv,          \* self.npv
  greeks,       \* self.greeks
  log,          \* warnings written to the execution log
  opt,          \* the optimizer / root finder that is running
  gk,           \* locals of compute_greeks computed so far
  hist,         \* history: what was handed to the collaborators
  call,         \* a call of one of the module-level functions: arguments, result
  peer          \* a second pricing run of the same process (overlapping request)

vars == <<cfg, pc, err, bbg_npv, eval_date, node_dates, node_dfs, ex_dates,
          basket, a, sigma_atm, sigma_inv, delta_spread, sigma_total, npv,
          greeks, log, opt, gk, hist, call, peer>>

----------------------------------------------------------------------------
(* Bounds of the model *)

MaxDate == 5        \* dates are 0 .. MaxDate (0: a date string that does not parse)
MaxNodes == 3       \* longest curve input
MaxTrials == 2
MaxFailures == 1      \* trial points an optimizer tries after its seed

(* Values *)

None == 0 - 1000000000   \* Python's None / a number not yet assigned
NoDate == 0         \* a date string parse_date() rejects
Dates == 1..MaxDate
DfOne == 100        \* discount factor 1.0
DfWarn == 105       \* discount factor 1.05
DfValues == {0, 90, 95}

Abs(x) == IF x < 0 THEN -x ELSE x
Max2(x, y) == IF x >= y THEN x ELSE y
Min2(x, y) == IF x <= y THEN x ELSE y

RECURSIVE SumSeq(_)
SumSeq(s) == IF s = <<>> THEN 0 ELSE Head(s) + SumSeq(Tail(s))

SeqsUpTo(S, n) == UNION {[1..k -> S] : k \in 0..n}

Range(s) == {s[i] : i \in 1..Len(s)}

----------------------------------------------------------------------------
(* setup(): the curve *)

\* parse_date(d) / float(df) succeed for this input pair (lines 229-233)
ParseOK(e) == e.d # NoDate

\* raw_pairs: the pairs that parse, in input order
RawPairs(curve) == SelectSeq(curve, ParseOK)

\* pairs: those dated strictly after the valuation date
FilterAfter(pairs, vd) == SelectSeq(pairs, LAMBDA e : e.d > vd)

\* list.sort(key=serialNumber): a stable sort, equal dates keep input order
RECURSIVE InsertStable(_, _)
InsertStable(sorted, e) ==
  IF sorted = <<>> THEN <<e>>
  ELSE IF Head(sorted).d <= e.d
       THEN <<Head(sorted)>> \o InsertStable(Tail(sorted), e)
       ELSE <<e>> \o sorted

RECURSIVE SortPairs(_)
SortPairs(s) ==
  IF s = <<>> THEN <<>>
  ELSE InsertStable(SortPairs(SubSeq(s, 1, Len(s) - 1)), s[Len(s)])

\* mutant of DedupStep: the first value of a date is kept
DedupStepKeepFirst(acc, e) ==
  IF acc # <<>> /\ acc[Len(acc)].d = e.d THEN acc ELSE Append(acc, e)

\* one pass of the dedup loop: the last value of a date replaces the stored one
DedupStep(acc, e) ==
  IF acc # <<>> /\ acc[Len(acc)].d = e.d
  THEN [acc EXCEPT ![Len(acc)] = e]
  ELSE Append(acc, e)

RECURSIVE DedupFrom(_, _)
DedupFrom(acc, rest) ==
  IF rest = <<>> THEN acc ELSE DedupFrom(DedupStep(acc, Head(rest)), Tail(rest))

Dedup(pairs) == DedupFrom(<<>>, pairs)

\* mutant of BadDf: a zero discount factor is let through
BadDfNegativeOnly(df) == df < 0

\* "if df <= 0: raise ValueError"
BadDf(df) == df <= 0

\* the warnings of the validation loops
CurveWarnings(dfs) ==
  (IF \E i \in 1..Len(dfs) : dfs[i] > DfWarn THEN {"df_gt_1.05"} ELSE {})
  \cup (IF \E i \in 2..Len(dfs) : dfs[i] > dfs[i-1] THEN {"non_monotone"} ELSE {})

\* ql.DiscountCurve([ref] + dates, [1.0] + dfs): QuantLib requires strictly
\* increasing dates and positive discount factors, and raises otherwise
CurveBuildOK(ref, dates, dfs) ==
  /\ \A i \in 1..Len(dates) : (IF i = 1 THEN ref ELSE dates[i-1]) < dates[i]
  /\ \A i \in 1..Len(dfs) : dfs[i] > 0

----------------------------------------------------------------------------
(* setup(): schedule and exercise dates *)

\* make_schedule(start, end, tenor, ..., DateGeneration.Backward): the dates
\* end, end - tenor, ... down to start, which is always the first date
RECURSIVE MakeSchedule(_, _, _)
MakeSchedule(start, end, tenor) ==
  IF end <= start THEN <<start>>
  ELSE Append(MakeSchedule(start, end - tenor, tenor), end)

\* auto mode: all schedule dates except the last, from swap_start on
AutoExDates(schedule, start) ==
  SelectSeq(SubSeq(schedule, 1, Len(schedule) - 1), LAMBDA d : d >= start)

\* the exercise dates setup() stores
ExDatesOf(c) ==
  IF c.ex_mode = "custom" /\ c.has_custom
  THEN c.custom_dates
  ELSE AutoExDates(MakeSchedule(c.swap_start, c.swap_end, c.tenor), c.swap_start)

----------------------------------------------------------------------------
(* Loading the market data: fetch_all (command line), build_config + fetch_all
   (Excel bridge), api_price (web) *)

\* benchmark.npv as the entry point reads it; None when the key is absent
BenchmarkNpv(c) ==
  CASE c.entry = "cli"   -> c.npv                                \* cfg.get("benchmark", {}).get("npv")
    [] c.entry = "excel" -> IF c.npv = None THEN 0 ELSE c.npv    \* float(get("bbg_npv", 0))
    [] c.entry = "web"   -> IF c.npv = None THEN 0 ELSE c.npv    \* .get("npv", 0)

\* fetch_all's closing check: "benchmark.npv is required in config"
LoadRaises(c) == c.entry \in {"cli", "excel"} /\ BenchmarkNpv(c) = None

Fail(what) == pc' = "failed" /\ err' = what

Load ==
  /\ pc = "start"
  /\ IF LoadRaises(cfg)
     THEN Fail("load") /\ UNCHANGED bbg_npv
     ELSE pc' = "loaded" /\ bbg_npv' = BenchmarkNpv(cfg) /\ UNCHANGED err
  /\ UNCHANGED <<call, peer, cfg, eval_date, node_dates, node_dfs, ex_dates, basket, a,
                 sigma_atm, sigma_inv, delta_spread, sigma_total, npv, greeks,
                 log, opt, gk, hist>>

\* BermudanPricer.__init__: self.a, self.bbg_npv = float(market_data["bbg_npv"])
Construct ==
  /\ pc = "loaded"
  /\ pc' = "constructed"
  /\ a' = cfg.a0
  /\ UNCHANGED <<call, peer, cfg, err, bbg_npv, eval_date, node_dates, node_dfs, ex_dates,
                 basket, sigma_atm, sigma_inv, delta_spread, sigma_total, npv,
                 greeks, log, opt, gk, hist>>

\* index of the first stored discount factor the validation loop rejects (0: none)
FirstBad(dfs) ==
  IF \E i \in 1..Len(dfs) : BadDf(dfs[i])
  THEN CHOOSE i \in 1..Len(dfs) :
         BadDf(dfs[i]) /\ \A j \in 1..(i-1) : ~BadDf(dfs[j])
  ELSE 0

\* BermudanPricer.setup
Setup ==
  /\ pc = "constructed"
  /\ eval_date' = cfg.val_date
  /\ LET pairs == FilterAfter(RawPairs(cfg.curve), cfg.val_date)
         dedup == Dedup(SortPairs(pairs))
         dates == [i \in 1..Len(dedup) |-> dedup[i].d]
         dfs   == [i \in 1..Len(dedup) |-> dedup[i].df]
         bad   == FirstBad(dfs)
     IN IF pairs = <<>>
        THEN /\ Fail("setup_no_nodes")
             /\ UNCHANGED <<node_dates, node_dfs, ex_dates, log, hist>>
        ELSE IF bad # 0
        THEN /\ Fail("setup_bad_df")
             /\ node_dates' = dates
             /\ node_dfs' = dfs
             /\ log' = log \cup (IF \E i \in 1..(bad-1) : dfs[i] > DfWarn
                                 THEN {"df_gt_1.05"} ELSE {})
             /\ UNCHANGED <<ex_dates, hist>>
        ELSE /\ node_dates' = dates
             /\ node_dfs' = dfs
             /\ log' = log \cup CurveWarnings(dfs)
             /\ hist' = [hist EXCEPT !.builds = @ \cup {<<cfg.val_date, dates>>}]
             /\ IF CurveBuildOK(cfg.val_date, dates, dfs)
                THEN pc' = "ready" /\ ex_dates' = ExDatesOf(cfg) /\ UNCHANGED err
                ELSE Fail("setup_curve") /\ UNCHANGED ex_dates
  /\ UNCHANGED <<call, peer, cfg, bbg_npv, basket, a, sigma_atm, sigma_inv, delta_spread,
                 sigma_total, npv, greeks, opt, gk>>

----------------------------------------------------------------------------
(* Volatility surface and the Bachelier formula *)

\* mutant of Clip: the upper bound is not applied
ClipBelowOnly(x, lo, hi) == Max2(lo, x)

\* np.clip(x, lo, hi)
Clip(x, lo, hi) == Max2(lo, Min2(x, hi))

\* mutant of UpperIndex: always the last index
UpperIndexLast(grid, xc) == Len(grid)

\* min(np.searchsorted(grid, xc), len(grid) - 1), counted from 1: the first
\* index whose grid value is >= xc, capped at the last index
UpperIndex(grid, xc) ==
  IF \E i \in 1..Len(grid) : grid[i] >= xc
  THEN CHOOSE i \in 1..Len(grid) :
         grid[i] >= xc /\ \A j \in 1..(i-1) : grid[j] < xc
  ELSE Len(grid)

\* vol_interp: bilinear interpolation, the weights kept as fractions
\* wx = wxn / wxd, wy = wyn / wyd and the blend divided once at the end
VolInterp(T, tenor, vol_mat, expiry_grid, tenor_grid) ==
  LET xc == Clip(T, expiry_grid[1], expiry_grid[Len(expiry_grid)])
      yc == Clip(tenor, tenor_grid[1], tenor_grid[Len(tenor_grid)])
      i1 == UpperIndex(expiry_grid, xc)
      j1 == UpperIndex(tenor_grid, yc)
      i0 == Max2(i1 - 1, 1)
      j0 == Max2(j1 - 1, 1)
      wxd == IF expiry_grid[i1] = expiry_grid[i0] THEN 1 ELSE expiry_grid[i1] - expiry_grid[i0]
      wxn == IF expiry_grid[i1] = expiry_grid[i0] THEN 0 ELSE xc - expiry_grid[i0]
      wyd == IF tenor_grid[j1] = tenor_grid[j0] THEN 1 ELSE tenor_grid[j1] - tenor_grid[j0]
      wyn == IF tenor_grid[j1] = tenor_grid[j0] THEN 0 ELSE yc - tenor_grid[j0]
  IN ((wyd - wyn) * ((wxd - wxn) * vol_mat[i0][j0] + wxn * vol_mat[i1][j0])
      + wyn * ((wxd - wxn) * vol_mat[i0][j1] + wxn * vol_mat[i1][j1]))
     \div (wxd * wyd)

\* 10 * sqrt(T) for T = 1, 2, ...
SqrtTab == <<10, 14, 17, 20, 22, 24, 26>>
Sqrt10(T) == SqrtTab[Min2(T, Len(SqrtTab))]

\* 1000 * Phi(d) and 1000 * phi(d) for d = 0, 0.5, ..., 3
PhiTab == <<500, 691, 841, 933, 977, 994, 999>>
DensTab == <<399, 352, 242, 130, 54, 18, 4>>
PhiOne == 1000

\* d = (F - K) / std in half units, std10 = 10 * sigma * sqrt(T)
HalfD(F, K, std10) ==
  LET q == (2 * 10 * Abs(F - K)) \div std10
      m == Min2(q, Len(PhiTab) - 1)
  IN IF F >= K THEN m ELSE 0 - m

\* mutant of NormCdf: the lower tail is not complemented
NormCdfOneSided(d2) == PhiTab[Abs(d2) + 1]

NormCdf(d2) == IF d2 >= 0 THEN PhiTab[d2 + 1] ELSE PhiOne - PhiTab[(0 - d2) + 1]

NormPdf(d2) == DensTab[Abs(d2) + 1]

PriceDen == 10000

\* bachelier_receiver
BachelierReceiver(F, K, sigma, T, annuity) ==
  IF sigma <= 0 \/ T <= 0 THEN annuity * Max2(K - F, 0)
  ELSE LET std10 == sigma * Sqrt10(T)
           d2 == HalfD(F, K, std10)
       IN (annuity * ((K - F) * NormCdf(0 - d2) * 10 + std10 * NormPdf(d2))) \div PriceDen

\* bachelier_payer
BachelierPayer(F, K, sigma, T, annuity) ==
  IF sigma <= 0 \/ T <= 0 THEN annuity * Max2(F - K, 0)
  ELSE LET std10 == sigma * Sqrt10(T)
           d2 == HalfD(F, K, std10)
       IN (annuity * ((F - K) * NormCdf(d2) * 10 + std10 * NormPdf(d2))) \div PriceDen

\* mutant of Bachelier: the two directions exchanged
BachelierSwapped(c, fwd, vol, T, ann) ==
  IF c.is_receiver THEN BachelierPayer(fwd, c.strike, vol, T, ann)
  ELSE BachelierReceiver(fwd, c.strike, vol, T, ann)

\* BermudanPricer._bachelier
Bachelier(c, fwd, vol, T, ann) ==
  IF c.is_receiver THEN BachelierReceiver(fwd, c.strike, vol, T, ann)
  ELSE BachelierPayer(fwd, c.strike, vol, T, ann)

----------------------------------------------------------------------------
(* The collaborators: swap engine and valuation oracle *)

\* the fixed-leg annuity of a swap discounted on dfs (abs(fixedLegBPS) / 1e-4)
Annuity(dfs) == SumSeq(dfs) \div 10

\* the par rate of the swap discounted on dfs, in basis points (fairRate)
FairRate(dfs) ==
  IF dfs = <<>> THEN 0 ELSE ((DfOne - dfs[Len(dfs)]) * 1000) \div SumSeq(dfs)

\* NPV of the underlying swap discounted on dfs (DiscountingSwapEngine)
SwapNpv(c, dfs) ==
  LET sign == IF c.is_receiver THEN 1 ELSE 0 - 1
  IN sign * (c.strike - FairRate(dfs)) * Annuity(dfs)

\* the swaption volatility a Hull-White model (a, sigma) implies, in basis
\* points: a in units of 0.001, sigma in units of 1e-6
ImpliedVol(av, sigma) == (sigma * (1000 - av)) \div 100000

\* oracle, European sub-option: price of basket entry it under HullWhite(a, sigma)
EuroPrice(c, it, av, sigma) == Bachelier(c, it.fwd, ImpliedVol(av, sigma), it.T, it.ann)

\* the exercise dates still live on evaluation date ev
LiveDates(dates, ev) == SelectSeq(dates, LAMBDA d : d > ev)

\* oracle, full instrument: price of the Bermudan with exercise dates ed under
\* HullWhite(a, sigma) on the curve dfs, evaluation date ev; an exhausted
\* exercise schedule is worth zero
BermPrice(dfs, ed, ev, av, sigma) ==
  LET n == Len(LiveDates(ed, ev))
  IN IF n = 0 THEN 0 ELSE (SumSeq(dfs) * ImpliedVol(av, sigma) * n) \div 20

----------------------------------------------------------------------------
(* The parameter transforms of the calibration *)

\* math.exp(x) on the grid of optimizer points x = 1 .. Len(ExpTab), in units
\* of 1e-6: exp underflows to 0 at the first point; 0.001, 0.005, 0.007, 0.05
\* are the bracket ends and the seeds of the code
ExpTab == <<0, 1000, 4000, 5000, 7000, 50000>>
XPoints == 1..Len(ExpTab)
SigmaFloor == 1     \* the 1e-8 added after exponentiation
XSeedAtm == 4       \* math.log(0.005)
XSeedInv == 5       \* math.log(0.007)
XBracketLo == 2     \* math.log(0.001)
XBracketHi == 6     \* math.log(0.05)

\* sigma = 1e-8 + math.exp(x)
SigmaOf(x) == SigmaFloor + ExpTab[x]

\* sigma = math.exp(log_s) of the inverse fit (no floor)
SigmaOfLog(x) == ExpTab[x]

\* _inv_logit on the grid of optimizer points 1 .. Len(ATab), in units of
\* 0.001: A_MIN + t * (A_MAX - A_MIN) with t rounding to 0 at the first point
\* and to 1 at the last; the seed _logit(0.03) is the second point
A_MIN == 1
A_MAX == 500
ATab == <<A_MIN, 30, A_MAX>>
APoints == 1..Len(ATab)
ASeed == 2
InvLogit(x) == ATab[x]

ObjInf == 2000000000   \* the 1e20 a failed joint trial is scored with
ObjScale == 10

----------------------------------------------------------------------------
(* _build_basket *)

\* the discount factors of the sub-swap running from ex to the swap's end
SubDfs(c, ndates, dfs, ex) ==
  LET idx == {i \in 1..Len(ndates) : ndates[i] > ex /\ ndates[i] <= c.swap_end}
      RECURSIVE Pick(_)
      Pick(i) == IF i > Len(ndates) THEN <<>>
                 ELSE IF i \in idx THEN <<dfs[i]>> \o Pick(i + 1) ELSE Pick(i + 1)
  IN Pick(1)

\* one basket entry per exercise date
BasketEntry(c, ndates, dfs, ex, vol_bump_bp) ==
  LET sub == SubDfs(c, ndates, dfs, ex)
      fwd == FairRate(sub)
      ann == Annuity(sub)
      T   == ex - c.val_date
      tenY == c.swap_end - ex
      vol == VolInterp(T, tenY, c.vol_mat, c.exp_grid, c.tnr_grid) + vol_bump_bp
  IN [fwd |-> fwd, vol |-> vol, T |-> T, ann |-> ann,
      mkt |-> Bachelier(c, fwd, vol, T, ann)]

\* the sub-options held by the entries of a basket
Swaptions(bk) == {bk[i].swpt : i \in 1..Len(bk)}

\* mutant of NewSwaption: the i-th sub-option that exists is taken again
NewSwaptionShared(held, i) == i

\* swpt = ql.Swaption(sk, ql.EuropeanExercise(ex)), the i-th construction of a
\* build: an object that is none of the objects held by a basket
NewSwaption(held, i) ==
  CHOOSE k \in 1..(Cardinality(held) + i) :
    k \notin held /\ Cardinality({j \in 1..k : j \notin held}) = i

\* _build_basket: a new list, one entry appended per exercise date; held are
\* the sub-options of the basket the pricer keeps while the build runs
BuildBasket(c, ndates, dfs, exdates, vol_bump_bp, held) ==
  [i \in 1..Len(exdates) |->
     LET e == BasketEntry(c, ndates, dfs, exdates[i], vol_bump_bp)
     IN [fwd |-> e.fwd, vol |-> e.vol, T |-> e.T, ann |-> e.ann, mkt |-> e.mkt,
         swpt |-> NewSwaption(held, i)]]

\* the objective of both stage-1 fits: sum of squared pricing errors, each
\* divided by max(1, |market price|)
RECURSIVE Objective(_, _, _, _)
Objective(c, bk, av, sigma) ==
  IF bk = <<>> THEN 0
  ELSE LET it == Head(bk)
           diff == EuroPrice(c, it, av, sigma) - it.mkt
       IN (diff * diff * ObjScale) \div Max2(1, Abs(it.mkt))
          + Objective(c, Tail(bk), av, sigma)

----------------------------------------------------------------------------
(* Curve bumps *)

\* 100 * exp(-z / 10), second order
ExpNeg(z) == 100 - 10 * z + (z * z) \div 2

\* _bump_dfs: DF * exp(-bp/10000 * t), t the node's time from the valuation date
BumpDfs(c, dates, dfs, bp) ==
  [i \in 1..Len(dfs) |-> (dfs[i] * ExpNeg(bp * (dates[i] - c.val_date))) \div 100]

\* self.yts_c.discount(d): the stored curve read at date d (interpolated
\* between the reference date and the first node, flat beyond the last)
DiscountAt(c, dates, dfs, d) ==
  IF \E i \in 1..Len(dates) : dates[i] = d
  THEN dfs[CHOOSE i \in 1..Len(dates) : dates[i] = d]
  ELSE IF d <= c.val_date THEN DfOne
  ELSE IF d < dates[1]
       THEN DfOne - ((DfOne - dfs[1]) * (d - c.val_date)) \div (dates[1] - c.val_date)
  ELSE dfs[Len(dfs)]

\* mutant of RollDfs: the nodes on or before the rolled date are left out
RollDfsLiveOnly(c, dates, dfs, nxt) ==
  LET live == SelectSeq([i \in 1..Len(dfs) |-> i], LAMBDA i : dates[i] > nxt)
  IN [k \in 1..Len(live) |->
        (DiscountAt(c, dates, dfs, dates[live[k]]) * DfOne) \div DiscountAt(c, dates, dfs, nxt)]

\* the Theta roll: every node's discount factor divided by DF(valuation + 1 day)
RollDfs(c, dates, dfs, nxt) ==
  [i \in 1..Len(dfs) |->
     (DiscountAt(c, dates, dfs, dates[i]) * DfOne) \div DiscountAt(c, dates, dfs, nxt)]

----------------------------------------------------------------------------
(* Initial states *)

NoOpt == [kind |-> "none", bx |-> 0, ba |-> 0, bval |-> 0, n |-> 0, lo |-> 0, hi |-> 0]
NoGk  == [pu |-> None, pd |-> None, su |-> None, sd |-> None,
          pv_up |-> None, pv_dn |-> None, bk |-> <<>>,
          th_run |-> FALSE, th_called |-> FALSE, th_ed |-> <<>>, pt |-> None]
\* a Greek is kept as the exact quotient n / d of its finite difference
Quot(num, den) == [n |-> num, d |-> den]
Unset == Quot(None, 0)
NoGreeks == [dv01 |-> Unset, gamma_1bp |-> Unset, vega_1bp |-> Unset,
             theta_1d |-> Unset, delta_hedge |-> Unset, underlying_dv01 |-> Unset]
NoHist == [builds |-> {}, priced |-> FALSE, inv_calls |-> 0, fails |-> <<>>, snap |-> <<>>,
           unconverged |-> {}, last |-> "none", full |-> 0, subcal |-> 0, nonpos |-> {}]

\* no function call under way, no second run in the process
NoCall == [fn |-> "none"]
NoPeer == [pc |-> "none"]

\* a pricer that is about to be loaded and constructed from c
Fresh(c) ==
  /\ cfg = c
  /\ pc = "start"
  /\ err = ""
  /\ bbg_npv = None
  /\ eval_date = None
  /\ node_dates = <<>>
  /\ node_dfs = <<>>
  /\ ex_dates = <<>>
  /\ basket = <<>>
  /\ a = None
  /\ sigma_atm = None
  /\ sigma_inv = None
  /\ delta_spread = None
  /\ sigma_total = None
  /\ npv = None
  /\ greeks = NoGreeks
  /\ log = {}
  /\ opt = NoOpt
  /\ gk = NoGk
  /\ hist = NoHist

InitWith(c) == call = NoCall /\ peer = NoPeer /\ Fresh(c)

\* the deal every curve input is tried with
BaseCfg ==
  [entry |-> "web", npv |-> 0, val_date |-> 2, curve |-> <<>>,
   calib_a |-> FALSE, a0 |-> 30, dv01_bp |-> 1, gamma_bp |-> 1, vega_bp |-> 2,
   do_theta |-> TRUE, ex_mode |-> "auto", has_custom |-> FALSE,
   custom_dates |-> <<>>,
   swap_start |-> 3, swap_end |-> 5, tenor |-> 1,
   is_receiver |-> TRUE, strike |-> 60,
   vol_mat |-> <<<<44, 44>>, <<44, 44>>>>, exp_grid |-> <<1, 3>>, tnr_grid |-> <<1, 2>>]

CurveEntries == [d : {NoDate} \cup (2..MaxDate), df : DfValues]

\* every curve input of up to MaxNodes (date, discount factor) pairs
InitCurve ==
  \E c \in SeqsUpTo(CurveEntries, MaxNodes) : InitWith([BaseCfg EXCEPT !.curve = c])

NextCurve == Load \/ Construct \/ Setup

SpecCurve == InitCurve /\ [][NextCurve]_vars

----------------------------------------------------------------------------
(* calibrate(): stage 1 *)

\* the state of scipy's minimize after it evaluated the objective at the seed:
\* best point (bx, ba), best value bval, n further trials made
OptSeed(c, bk, av, ok) ==
  [kind |-> "nm", bx |-> XSeedAtm, ba |-> IF c.calib_a THEN ASeed ELSE 0,
   bval |-> IF ok THEN Objective(c, bk, av, SigmaOf(XSeedAtm)) ELSE ObjInf,
   n |-> 0, lo |-> 0, hi |-> 0]

\* the mean reversion an objective evaluation at grid point xa uses:
\* _inv_logit(x[0]) in the joint fit, self.a in the sigma-only fit
TrialA(c, xa) == IF c.calib_a THEN InvLogit(xa) ELSE a

\* the record of an oracle call made in context ctx; a run sees at most
\* MaxFailures oracle failures
Noted(ok, ctx) == [hist EXCEPT !.priced = TRUE,
                               !.last = ctx,
                               !.fails = IF ok THEN @ ELSE Append(@, ctx)]

WithinFailures == Len(hist'.fails) <= MaxFailures

\* the context of a full-instrument valuation if its volatility is not positive
NonPositive(sigma, ctx) == IF sigma > 0 THEN {} ELSE {ctx}

\* the history h with a full-instrument valuation, HullWhite(h, a, sigma), in
\* context ctx
Priced(sigma, ctx, h) == [h EXCEPT !.nonpos = @ \cup NonPositive(sigma, ctx)]

\* mutant of Propagates: the sigma-only objective swallows failures too
PropagatesNever(c) == FALSE

\* an oracle failure inside the objective leaves minimize: _calib_sigma_atm.obj
\* has no handler, _calib_joint.obj returns 1e20 instead
Propagates(c) == ~c.calib_a

\* calibrate() up to the first objective evaluation of stage 1
CalibrateStart ==
  /\ pc = "ready"
  /\ \E ok \in BOOLEAN :
       LET bk == BuildBasket(cfg, node_dates, node_dfs, ex_dates, 0, Swaptions(basket))
       IN /\ basket' = bk
          /\ hist' = Noted(ok, IF cfg.calib_a THEN "joint_trial" ELSE "atm_trial")
          /\ WithinFailures
          /\ IF ok \/ ~Propagates(cfg)
             THEN /\ pc' = "stage1"
                  /\ opt' = OptSeed(cfg, bk, TrialA(cfg, ASeed), ok)
                  /\ err' = err
             ELSE /\ Fail("calibrate_oracle")
                  /\ opt' = opt
  /\ UNCHANGED <<call, peer, cfg, bbg_npv, eval_date, node_dates, node_dfs, ex_dates, a,
                 sigma_atm, sigma_inv, delta_spread, sigma_total, npv, greeks,
                 log, gk>>

\* one further objective evaluation of a stage-1 fit (_calib_sigma_atm.obj or
\* _calib_joint.obj), in calibrate() or in a Vega recalibration
OptTrial ==
  /\ pc \in {"stage1", "vega_up", "vega_dn"}
  /\ opt.kind = "nm"
  /\ opt.n < MaxTrials
  /\ \E xs \in XPoints, xa \in (IF cfg.calib_a THEN APoints ELSE {0}), ok \in BOOLEAN :
       LET bk == IF pc = "stage1" THEN basket ELSE gk.bk
           v == IF ok THEN Objective(cfg, bk, TrialA(cfg, xa), SigmaOf(xs)) ELSE ObjInf
           ctx == IF pc = "stage1"
                  THEN (IF cfg.calib_a THEN "joint_trial" ELSE "atm_trial")
                  ELSE (IF cfg.calib_a THEN "vega_joint_trial" ELSE "vega_atm_trial")
       IN /\ hist' = Noted(ok, ctx)
          /\ WithinFailures
          /\ IF ok \/ ~Propagates(cfg)
             THEN /\ opt' = IF v < opt.bval
                            THEN [opt EXCEPT !.bx = xs, !.ba = xa, !.bval = v, !.n = @ + 1]
                            ELSE [opt EXCEPT !.n = @ + 1]
                  /\ UNCHANGED <<pc, err>>
             ELSE /\ Fail(IF pc = "stage1" THEN "calibrate_oracle" ELSE "greeks_oracle")
                  /\ opt' = opt
  /\ UNCHANGED <<call, peer, cfg, bbg_npv, eval_date, node_dates, node_dfs, ex_dates, basket,
                 a, sigma_atm, sigma_inv, delta_spread, sigma_total, npv, greeks,
                 log, gk>>

\* _build_berm: ql.BermudanExercise(self.ex_dates), the dates the base price,
\* the calibration prices and the Vega reprices are priced over
BuildBermDates == ex_dates

\* _price_berm(self.yts_h, berm, sigma) with the mean reversion av: the full
\* instrument on the stored curve
FullPrice(av, sigma) == BermPrice(node_dfs, ex_dates, eval_date, av, sigma)

\* mutant of HasTarget: a zero target is treated as a target
HasTargetAlways(target) == TRUE

\* "if self.bbg_npv": the benchmark counts as a target unless it is 0
HasTarget(target) == target # 0

NotConverged(conv, what) == IF conv THEN log ELSE log \cup {what}

\* the history h with the end of an optimizer run: res.success was conv
Ended(conv, what, h) ==
  [h EXCEPT !.unconverged = IF conv THEN @ ELSE @ \cup {what}]

\* the warning of the stage-1 fit that is in use
Stage1Warning(c) == IF c.calib_a THEN "joint_not_converged" ELSE "atm_not_converged"

\* the end of stage 1, the check price at sigma_ATM and, without a target, the
\* rest of calibrate()
Stage1Finish ==
  /\ pc = "stage1"
  /\ opt.kind = "nm"
  /\ \E conv \in BOOLEAN, ok1 \in BOOLEAN, ok2 \in BOOLEAN :
       LET a1 == TrialA(cfg, opt.ba)
           s1 == SigmaOf(opt.bx)
       IN /\ a' = a1
          /\ sigma_atm' = s1
          /\ log' = NotConverged(conv, Stage1Warning(cfg))
          /\ opt' = NoOpt
          /\ IF ~ok1
             THEN /\ Fail("calibrate_oracle")
                  /\ hist' = Priced(s1, "atm_check",
                                   Ended(conv, Stage1Warning(cfg), Noted(FALSE, "atm_check")))
                  /\ UNCHANGED <<sigma_inv, delta_spread, sigma_total, npv>>
             ELSE IF ~HasTarget(bbg_npv)
             THEN /\ sigma_inv' = s1
                  /\ delta_spread' = 0
                  /\ sigma_total' = s1
                  /\ hist' = Priced(s1, "atm_check", Priced(s1, "headline",
                                   Ended(conv, Stage1Warning(cfg), Noted(ok2, "headline"))))
                  /\ IF ok2
                     THEN /\ npv' = FullPrice(a1, s1)
                          /\ pc' = "calibrated"
                          /\ err' = err
                     ELSE /\ Fail("calibrate_oracle")
                          /\ npv' = npv
             ELSE /\ pc' = "inverse"
                  /\ err' = err
                  /\ hist' = Priced(s1, "atm_check",
                                   Ended(conv, Stage1Warning(cfg), Noted(TRUE, "atm_check")))
                  /\ UNCHANGED <<sigma_inv, delta_spread, sigma_total, npv>>
  /\ WithinFailures
  /\ UNCHANGED <<call, peer, cfg, bbg_npv, eval_date, node_dates, node_dfs, ex_dates, basket,
                 greeks, gk>>

----------------------------------------------------------------------------
(* calibrate(): the inverse fit (_inverse_solve) and the headline price *)

\* mutant of InvResidual: priced with the configured mean reversion
InvResidualConfigured(x) ==
  BermPrice(node_dfs, ex_dates, eval_date, cfg.a0, SigmaOfLog(x)) - bbg_npv

\* f(log_s) = price at exp(log_s) - target
InvResidual(x) == FullPrice(a, SigmaOfLog(x)) - bbg_npv

\* mutant of SameSign: the test inverted
SameSignInverted(u, v) == (u > 0 /\ v < 0) \/ (u < 0 /\ v > 0)

\* f(a) * f(b) > 0
SameSign(u, v) == (u > 0 /\ v > 0) \/ (u < 0 /\ v < 0)

\* the except branch: Nelder-Mead on f squared, seeded at log(0.007); its first
\* evaluation is outside any handler
FallbackStart(okfb) ==
  IF okfb
  THEN /\ opt' = [kind |-> "nm_inv", bx |-> XSeedInv, ba |-> 0,
                  bval |-> InvResidual(XSeedInv) * InvResidual(XSeedInv),
                  n |-> 0, lo |-> 0, hi |-> 0]
       /\ UNCHANGED <<pc, err>>
  ELSE /\ Fail("calibrate_oracle")
       /\ opt' = opt

\* brentq evaluates f at both ends of the bracket [log 0.001, log 0.05]
InverseStart ==
  /\ pc = "inverse"
  /\ opt.kind = "none"
  /\ \E oklo \in BOOLEAN, okhi \in BOOLEAN, okfb \in BOOLEAN :
       LET flo == InvResidual(XBracketLo)
           fhi == InvResidual(XBracketHi)
           raised == ~oklo \/ ~okhi \/ SameSign(flo, fhi)
       IN /\ hist' = [hist EXCEPT
                        !.priced = TRUE,
                        !.inv_calls = @ + 1,
                        !.last = IF raised THEN "fallback_trial" ELSE "brent_trial",
                        !.nonpos = @ \cup NonPositive(SigmaOfLog(XBracketLo), "brent_trial")
                                     \cup NonPositive(SigmaOfLog(XBracketHi), "brent_trial")
                                     \cup (IF raised
                                           THEN NonPositive(SigmaOfLog(XSeedInv), "fallback_trial")
                                           ELSE {}),
                        !.fails = @ \o (IF oklo /\ okhi THEN <<>> ELSE <<"brent_trial">>)
                                    \o (IF raised /\ ~okfb THEN <<"fallback_trial">> ELSE <<>>)]
          /\ WithinFailures
          /\ IF raised THEN FallbackStart(okfb)
             ELSE /\ opt' = IF flo = 0 THEN [NoOpt EXCEPT !.kind = "root", !.bx = XBracketLo]
                            ELSE IF fhi = 0 THEN [NoOpt EXCEPT !.kind = "root", !.bx = XBracketHi]
                            ELSE [NoOpt EXCEPT !.kind = "brent", !.lo = XBracketLo, !.hi = XBracketHi]
                  /\ UNCHANGED <<pc, err>>
  /\ UNCHANGED <<call, peer, cfg, bbg_npv, eval_date, node_dates, node_dfs, ex_dates, basket,
                 a, sigma_atm, sigma_inv, delta_spread, sigma_total, npv, greeks,
                 log, gk>>

\* one further evaluation of brentq inside the bracket
InverseStep ==
  /\ pc = "inverse"
  /\ opt.kind = "brent"
  /\ opt.hi - opt.lo > 1
  /\ \E ok \in BOOLEAN, okfb \in BOOLEAN :
       LET mid == (opt.lo + opt.hi) \div 2
           fm == InvResidual(mid)
       IN /\ hist' = [hist EXCEPT
                        !.last = IF ok THEN "brent_trial" ELSE "fallback_trial",
                        !.nonpos = @ \cup NonPositive(SigmaOfLog(mid), "brent_trial")
                                     \cup (IF ok THEN {}
                                           ELSE NonPositive(SigmaOfLog(XSeedInv), "fallback_trial")),
                        !.fails = @ \o (IF ok THEN <<>> ELSE <<"brent_trial">>)
                                    \o (IF ~ok /\ ~okfb THEN <<"fallback_trial">> ELSE <<>>)]
          /\ WithinFailures
          /\ IF ~ok THEN FallbackStart(okfb)
             ELSE /\ opt' = IF fm = 0 THEN [NoOpt EXCEPT !.kind = "root", !.bx = mid]
                            ELSE IF SameSign(fm, InvResidual(opt.lo))
                                 THEN [opt EXCEPT !.lo = mid]
                                 ELSE [opt EXCEPT !.hi = mid]
                  /\ UNCHANGED <<pc, err>>
  /\ UNCHANGED <<call, peer, cfg, bbg_npv, eval_date, node_dates, node_dfs, ex_dates, basket,
                 a, sigma_atm, sigma_inv, delta_spread, sigma_total, npv, greeks,
                 log, gk>>

\* one further evaluation of the fallback minimisation
InverseFallbackTrial ==
  /\ pc = "inverse"
  /\ opt.kind = "nm_inv"
  /\ opt.n < MaxTrials
  /\ \E xs \in XPoints, ok \in BOOLEAN :
       LET v == InvResidual(xs) * InvResidual(xs)
       IN /\ hist' = Priced(SigmaOfLog(xs), "fallback_trial", Noted(ok, "fallback_trial"))
          /\ WithinFailures
          /\ IF ok
             THEN /\ opt' = IF v < opt.bval
                            THEN [opt EXCEPT !.bx = xs, !.bval = v, !.n = @ + 1]
                            ELSE [opt EXCEPT !.n = @ + 1]
                  /\ UNCHANGED <<pc, err>>
             ELSE /\ Fail("calibrate_oracle")
                  /\ opt' = opt
  /\ UNCHANGED <<call, peer, cfg, bbg_npv, eval_date, node_dates, node_dfs, ex_dates, basket,
                 a, sigma_atm, sigma_inv, delta_spread, sigma_total, npv, greeks,
                 log, gk>>

\* the points _inverse_solve may return: the root brentq hit, either end of
\* its final bracket, or the best point of the fallback
InverseResults ==
  IF opt.kind = "brent" THEN {opt.lo, opt.hi} ELSE {opt.bx}

\* mutant of SpreadOf: the spread taken the other way round
SpreadOfSwapped(sinv, satm) == satm - sinv

\* self.delta_spread = self.sigma_inv - self.sigma_atm
SpreadOf(sinv, satm) == sinv - satm

\* _inverse_solve returns; decomposition and headline price
InverseFinish ==
  /\ pc = "inverse"
  /\ IF opt.kind = "brent" THEN opt.hi - opt.lo <= 1
                           ELSE opt.kind \in {"root", "nm_inv"}
  /\ \E x \in InverseResults, ok \in BOOLEAN,
        conv \in (IF opt.kind = "nm_inv" THEN BOOLEAN ELSE {TRUE}) :
       LET sinv == SigmaOfLog(x)
       IN /\ sigma_inv' = sinv
          /\ delta_spread' = SpreadOf(sinv, sigma_atm)
          /\ sigma_total' = sinv
          \* the fallback's res.success is not looked at: no warning is printed
          /\ hist' = Priced(sinv, "headline",
                           Ended(conv, "fallback_not_converged", Noted(ok, "headline")))
          /\ WithinFailures
          /\ opt' = NoOpt
          /\ IF ok
             THEN /\ npv' = FullPrice(a, sinv)
                  /\ pc' = "calibrated"
                  /\ err' = err
             ELSE /\ Fail("calibrate_oracle")
                  /\ npv' = npv
  /\ UNCHANGED <<call, peer, cfg, bbg_npv, eval_date, node_dates, node_dfs, ex_dates, basket,
                 a, sigma_atm, greeks, log, gk>>

----------------------------------------------------------------------------
(* compute_greeks() *)

\* the calibration results compute_greeks() reads
CalibState == <<a, sigma_atm, sigma_inv, delta_spread, sigma_total, npv>>

\* _reprice_with_dfs, the exercise dates it keeps: [d for d in ex_dates if d > ev]
RepriceDates(ev) == LiveDates(ex_dates, ev)

\* mutant of AfterReprice: the date set for the repricing stays
AfterRepriceNotRestored(saved, ev) == ev

\* _reprice_with_dfs: saved = evaluationDate, evaluationDate = ev, and in the
\* finally clause evaluationDate = saved, on return and on raise
AfterReprice(saved, ev) == saved

\* mutant of OracleCalls: the oracle is called for a lapsed schedule too
OracleCallsAlways(ed) == 1

\* _reprice_with_dfs: "if not ed: r = 0.0", otherwise one call of _price_berm
OracleCalls(ed) == IF ed = <<>> THEN 0 ELSE 1

\* _reprice_with_dfs, the value it returns when curve and oracle succeed
RepriceValue(ev, dfs, sigma) ==
  IF RepriceDates(ev) = <<>> THEN 0 ELSE BermPrice(dfs, ex_dates, ev, a, sigma)

\* DV01, Gamma, underlying DV01 inputs: the four curve-bumped revaluations
GreeksCurve ==
  /\ pc = "calibrated"
  /\ \E oku \in BOOLEAN, okd \in BOOLEAN :
       LET ref == cfg.val_date
           up == BumpDfs(cfg, node_dates, node_dfs, cfg.dv01_bp)
           dn == BumpDfs(cfg, node_dates, node_dfs, 0 - cfg.dv01_bp)
           live == RepriceDates(ref) # <<>>
           built == CurveBuildOK(ref, node_dates, up) /\ CurveBuildOK(ref, node_dates, dn)
           failed == live /\ (~oku \/ ~okd)
       IN /\ hist' = [hist EXCEPT
                        !.snap = CalibState,
                        !.last = IF built /\ live THEN "curve_reprice" ELSE @,
                        !.nonpos = IF built /\ live
                                   THEN @ \cup NonPositive(sigma_total, "curve_reprice")
                                   ELSE @,
                        !.full = IF built
                                 THEN OracleCalls(RepriceDates(ref)) * (IF oku THEN 2 ELSE 1)
                                 ELSE 0,
                        !.subcal = 0,
                        !.builds = @ \cup {<<ref, node_dates>>},
                        !.fails = IF built /\ failed THEN Append(@, "curve_reprice") ELSE @]
          /\ WithinFailures
          /\ IF ~built THEN Fail("greeks_curve") /\ gk' = gk
             ELSE IF failed THEN Fail("greeks_oracle") /\ gk' = gk
             ELSE /\ gk' = [NoGk EXCEPT !.pu = RepriceValue(ref, up, sigma_total),
                                        !.pd = RepriceValue(ref, dn, sigma_total),
                                        !.su = SwapNpv(cfg, up),
                                        !.sd = SwapNpv(cfg, dn)]
                  /\ pc' = "vega_up"
                  /\ err' = err
  /\ eval_date' = AfterReprice(eval_date, cfg.val_date)
  /\ UNCHANGED <<call, peer, cfg, bbg_npv, node_dates, node_dfs, ex_dates, basket, a,
                 sigma_atm, sigma_inv, delta_spread, sigma_total, npv, greeks,
                 log, opt>>

\* vega_bump(bp) up to the first objective evaluation of its recalibration
VegaStart ==
  /\ pc \in {"vega_up", "vega_dn"}
  /\ opt.kind = "none"
  /\ \E ok \in BOOLEAN :
       LET bp == IF pc = "vega_up" THEN cfg.vega_bp ELSE 0 - cfg.vega_bp
           bk == BuildBasket(cfg, node_dates, node_dfs, ex_dates, bp, Swaptions(basket))
       IN /\ hist' = [Noted(ok, IF cfg.calib_a THEN "vega_joint_trial" ELSE "vega_atm_trial")
                        EXCEPT !.subcal = @ + 1]
          /\ WithinFailures
          /\ IF ok \/ ~Propagates(cfg)
             THEN /\ gk' = [gk EXCEPT !.bk = bk]
                  /\ opt' = OptSeed(cfg, bk, TrialA(cfg, ASeed), ok)
                  /\ UNCHANGED <<pc, err>>
             ELSE /\ Fail("greeks_oracle")
                  /\ UNCHANGED <<gk, opt>>
  /\ UNCHANGED <<call, peer, cfg, bbg_npv, eval_date, node_dates, node_dfs, ex_dates, basket,
                 a, sigma_atm, sigma_inv, delta_spread, sigma_total, npv, greeks,
                 log>>

\* mutant of HybridSigma: the refitted sigma alone, the spread dropped
HybridSigmaNoSpread(sig_atm_b, spread) == sig_atm_b

\* sig_total_b = sig_atm_b + self.delta_spread
HybridSigma(sig_atm_b, spread) == sig_atm_b + spread

\* mutant of KeptMeanReversion: the refitted mean reversion is stored
KeptMeanReversionRefit(a_self, a_b) == a_b

\* "_, sig_atm_b = self._calib_joint(self.yts_h, bk)": the refitted mean
\* reversion a_b is dropped, self.a stays
KeptMeanReversion(a_self, a_b) == a_self

\* vega_bump(bp) from the end of its recalibration: the recalibrated sigma_ATM
\* plus the frozen spread, priced on the base curve with self.a
VegaFinish ==
  /\ pc \in {"vega_up", "vega_dn"}
  /\ opt.kind = "nm"
  /\ \E conv \in BOOLEAN, ok \in BOOLEAN :
       LET sig_atm_b == SigmaOf(opt.bx)
           sig_total_b == HybridSigma(sig_atm_b, delta_spread)
           pv == FullPrice(a, sig_total_b)
       IN /\ log' = NotConverged(conv, Stage1Warning(cfg))
          /\ hist' = [Priced(sig_total_b, "vega_reprice",
                              Ended(conv, Stage1Warning(cfg), Noted(ok, "vega_reprice")))
                        EXCEPT !.full = @ + 1]
          /\ WithinFailures
          /\ opt' = NoOpt
          /\ a' = KeptMeanReversion(a, TrialA(cfg, opt.ba))
          /\ IF ok
             THEN /\ gk' = IF pc = "vega_up" THEN [gk EXCEPT !.pv_up = pv, !.bk = <<>>]
                                             ELSE [gk EXCEPT !.pv_dn = pv, !.bk = <<>>]
                  /\ pc' = IF pc = "vega_up" THEN "vega_dn" ELSE "theta"
                  /\ err' = err
             ELSE /\ Fail("greeks_oracle")
                  /\ gk' = gk
  /\ UNCHANGED <<call, peer, cfg, bbg_npv, eval_date, node_dates, node_dfs, ex_dates, basket,
                 sigma_atm, sigma_inv, delta_spread, sigma_total, npv, greeks>>

\* mutant of HedgeDelta: the guard on the denominator is left out
HedgeDeltaUnguarded(dv01, udv01) == Quot(dv01.n * udv01.d, dv01.d * udv01.n)

\* delta = (dv01 / udv01) if abs(udv01) > 1e-12 else 0.0; a revaluation
\* difference is a whole number of price units, so beyond 1e-12 iff not zero
HedgeDelta(dv01, udv01) ==
  IF udv01.n # 0 THEN Quot(dv01.n * udv01.d, dv01.d * udv01.n) ELSE Quot(0, 1)

\* mutant of Gamma: the divisor is the bump, not its square
GammaDividedByBump(pu, p0, pd, h) == Quot(pu - 2 * p0 + pd, h)

\* gamma = (pu - 2.0 * p0 + pd) / (self.gamma_bp ** 2)
Gamma(pu, p0, pd, h) == Quot(pu - 2 * p0 + pd, h * h)

\* the six values of the GreekSet from the revaluations p0, pu, pd, su, sd,
\* pv_up, pv_dn and the Theta difference
GreekSet(c, p0, g, theta) ==
  LET dv01 == Quot(g.pd - g.pu, 2 * c.dv01_bp)
      udv01 == Quot(g.sd - g.su, 2 * c.dv01_bp)
  IN [dv01 |-> dv01,
      gamma_1bp |-> Gamma(g.pu, p0, g.pd, c.gamma_bp),
      vega_1bp |-> Quot(g.pv_up - g.pv_dn, 2 * c.vega_bp),
      theta_1d |-> Quot(theta, 1),
      delta_hedge |-> HedgeDelta(dv01, udv01),
      underlying_dv01 |-> udv01]

\* Theta and the publication of the GreekSet
GreeksTheta ==
  /\ pc = "theta"
  /\ \E ok \in BOOLEAN :
       LET nxt == cfg.val_date + 1
           tdfs == RollDfs(cfg, node_dates, node_dfs, nxt)
           built == CurveBuildOK(nxt, node_dates, tdfs)
           ed == RepriceDates(nxt)
           called == cfg.do_theta /\ built /\ ed # <<>>
           pt == RepriceValue(nxt, tdfs, sigma_total)
       IN /\ hist' = [hist EXCEPT
                        !.builds = IF cfg.do_theta THEN @ \cup {<<nxt, node_dates>>} ELSE @,
                        !.last = IF called THEN "theta_reprice" ELSE @,
                        !.nonpos = IF called
                                   THEN @ \cup NonPositive(sigma_total, "theta_reprice")
                                   ELSE @,
                        !.full = IF cfg.do_theta /\ built THEN @ + OracleCalls(ed) ELSE @,
                        !.fails = IF called /\ ~ok THEN Append(@, "theta_reprice") ELSE @]
          /\ WithinFailures
          /\ IF ~cfg.do_theta
             THEN /\ greeks' = GreekSet(cfg, npv, gk, 0)
                  /\ gk' = gk
                  /\ pc' = "done"
                  /\ err' = err
             ELSE IF ~built
             THEN /\ Fail("greeks_curve")
                  /\ UNCHANGED <<greeks, gk>>
             ELSE IF called /\ ~ok
             THEN /\ Fail("greeks_oracle")
                  /\ UNCHANGED <<greeks, gk>>
             ELSE /\ greeks' = GreekSet(cfg, npv, gk, pt - npv)
                  /\ gk' = [gk EXCEPT !.th_run = TRUE, !.th_called = called,
                                      !.th_ed = ed, !.pt = pt]
                  /\ pc' = "done"
                  /\ err' = err
  /\ eval_date' = IF cfg.do_theta THEN AfterReprice(eval_date, cfg.val_date + 1)
                                   ELSE eval_date
  /\ UNCHANGED <<call, peer, cfg, bbg_npv, node_dates, node_dfs, ex_dates, basket, a,
                 sigma_atm, sigma_inv, delta_spread, sigma_total, npv, log, opt>>

\* compute_greeks() is called again on the same pricer: its locals start
\* afresh, the published GreekSet stays until the call replaces it
GreeksAgain ==
  /\ pc = "done"
  /\ pc' = "calibrated"
  /\ gk' = NoGk
  /\ UNCHANGED <<call, peer, cfg, err, bbg_npv, eval_date, node_dates, node_dfs, ex_dates,
                 basket, a, sigma_atm, sigma_inv, delta_spread, sigma_total, npv,
                 greeks, log, opt, hist>>

----------------------------------------------------------------------------
(* The pricing run: main() / run_pricer / api_price *)

TargetIn == 888      \* a benchmark NPV some sigma of the bracket reproduces
TargetOut == 0 - 5   \* a benchmark NPV no sigma reproduces

\* curves setup() accepts: first node one day or two days after the valuation date
Curves ==
  {<< [d |-> 3, df |-> 95], [d |-> 4, df |-> 92], [d |-> 5, df |-> 90] >>,
   << [d |-> 4, df |-> 95], [d |-> 5, df |-> 90] >>}

\* exercise schedules: generated from a 3 -> 5 or a 3 -> 4 swap, or custom
Deals ==
  {[BaseCfg EXCEPT !.swap_end = 5],
   [BaseCfg EXCEPT !.swap_end = 4],
   [BaseCfg EXCEPT !.ex_mode = "custom", !.has_custom = TRUE, !.custom_dates = <<4, 2>>]}

\* the benchmark NPV of a request: absent, zero, or one of the two targets

\* every deal on every curve, without a target and with the attainable one,
\* mean reversion fixed
FixedConfigs ==
  {[d EXCEPT !.npv = t, !.curve = cv] :
     d \in Deals, t \in {None, TargetIn}, cv \in Curves}

FirstCfg == [BaseCfg EXCEPT !.curve = CHOOSE cv \in Curves : Len(cv) = 3]

SecondCfg == [BaseCfg EXCEPT !.curve = CHOOSE cv \in Curves : Len(cv) = 2]

\* the first deal with the mean reversion calibrated
JointConfigs ==
  {[SecondCfg EXCEPT !.calib_a = TRUE, !.npv = t] : t \in {None, TargetIn}}

\* the first deal through the other entry points and without Theta, on both
\* curves with unequal bump sizes and with the unattainable target
OtherConfigs ==
  {[FirstCfg EXCEPT !.entry = e, !.npv = t] : e \in {"cli", "excel"}, t \in {None, 0}}
  \cup {[c EXCEPT !.npv = t, !.gamma_bp = 2] : c \in {FirstCfg, SecondCfg}, t \in {0, TargetIn}}
  \cup {[FirstCfg EXCEPT !.do_theta = FALSE]}
  \cup {[c EXCEPT !.npv = TargetOut] : c \in {FirstCfg, SecondCfg}}

Configs == FixedConfigs \cup JointConfigs \cup OtherConfigs

Init == \E c \in Configs : InitWith(c)

Next ==
  \/ Load \/ Construct \/ Setup
  \/ CalibrateStart \/ OptTrial \/ Stage1Finish
  \/ InverseStart \/ InverseStep \/ InverseFallbackTrial \/ InverseFinish
  \/ GreeksCurve \/ VegaStart \/ VegaFinish \/ GreeksTheta \/ GreeksAgain

Spec == Init /\ [][Next]_vars

----------------------------------------------------------------------------
(* Two overlapping pricing runs in one process: api_price on a threaded server *)

\* what a step of the second run leaves alone: everything but the process-wide
\* evaluation date
PeerStep ==
  UNCHANGED <<call, cfg, pc, err, bbg_npv, node_dates, node_dfs, ex_dates, basket,
              a, sigma_atm, sigma_inv, delta_spread, sigma_total, npv, greeks,
              log, opt, gk, hist>>

\* the second run's setup(): ql.Settings.instance().evaluationDate = self.val_date
PeerSetup ==
  /\ peer.pc = "start"
  /\ eval_date' = peer.val_date
  /\ peer' = [peer EXCEPT !.pc = "ready"]
  /\ PeerStep

\* the second run enters _reprice_with_dfs for its Theta: the date is saved and
\* moved one day on
PeerRepriceEnter ==
  /\ peer.pc = "ready"
  /\ eval_date' = peer.val_date + 1
  /\ peer' = [peer EXCEPT !.pc = "repricing", !.saved = eval_date]
  /\ PeerStep

\* the finally clause of the second run's _reprice_with_dfs
PeerRepriceExit ==
  /\ peer.pc = "repricing"
  /\ eval_date' = peer.saved
  /\ peer' = [peer EXCEPT !.pc = "done"]
  /\ PeerStep

\* the valuation dates of the second request
PeerDates == {2, 4}

\* the first request prices the second deal against its attainable target
InitShared ==
  \E v \in PeerDates :
    /\ call = NoCall
    /\ peer = [pc |-> "start", val_date |-> v, saved |-> None]
    /\ Fresh([SecondCfg EXCEPT !.npv = TargetIn])

NextShared ==
  \/ Load \/ Construct \/ Setup
  \/ CalibrateStart \/ OptTrial \/ Stage1Finish
  \/ InverseStart \/ InverseStep \/ InverseFallbackTrial \/ InverseFinish
  \/ GreeksCurve \/ VegaStart \/ VegaFinish \/ GreeksTheta \/ GreeksAgain
  \/ PeerSetup \/ PeerRepriceEnter \/ PeerRepriceExit

SpecShared == InitShared /\ [][NextShared]_vars

----------------------------------------------------------------------------
(* Calls of the module-level functions and of the Greek formulas *)

MaxGridVal == 3
MaxGridLen == 3

\* the strictly increasing grids of up to MaxGridLen values out of 1..MaxGridVal
Grids ==
  {g \in SeqsUpTo(1..MaxGridVal, MaxGridLen) :
     Len(g) >= 1 /\ \A i \in 1..(Len(g) - 1) : g[i] < g[i + 1]}

\* volatility surfaces in basis points: a level, a curvature along the expiry
\* axis, a slope along the tenor axis and a twist
VolBase == 40
Surface(si, sj, sx, ne, nt) ==
  [i \in 1..ne |-> [j \in 1..nt |-> VolBase + si * i * i + sj * j + sx * i * j]]

VolInterpCalls ==
  {[fn |-> "vol_interp", done |-> FALSE, out |-> None,
    T |-> q[1], tenor |-> q[2], expiry_grid |-> eg, tenor_grid |-> tg,
    vol_mat |-> Surface(sf[1], sf[2], sf[3], Len(eg), Len(tg))] :
     q \in (0..(MaxGridVal + 1)) \X (0..(MaxGridVal + 1)),
     eg \in Grids, tg \in Grids,
     sf \in {0, 5} \X {0, 0 - 3} \X {0, 2}}

\* forward and strike in basis points, volatility in basis points, time to
\* expiry, annuity
BachelierCalls ==
  {[fn |-> "bachelier", done |-> FALSE, out |-> None,
    F |-> x[1], K |-> x[2], sigma |-> x[3], T |-> x[4], annuity |-> x[5]] :
     x \in {40, 54, 60, 111} \X {40, 60, 75} \X {0 - 2, 0, 20, 44}
             \X {0 - 1, 0, 1, 2, 4} \X {0, 9, 18}}

\* one basket entry of a deal on a stored curve, with and without a Vega bump
BasketEntryCalls ==
  {[fn |-> "basket_entry", done |-> FALSE, out |-> None,
    c |-> [BaseCfg EXCEPT !.is_receiver = x[1], !.strike = x[2],
                          !.vol_mat = <<<<x[3], x[3]>>, <<x[3], x[3]>>>>],
    ndates |-> <<3, 4, 5>>, dfs |-> <<98, 95, 90>>, ex |-> x[4], bump |-> x[5]] :
     x \in BOOLEAN \X {40, 60, 75} \X {1, 2, 44} \X (1..4) \X {0 - 2, 0, 2}}

\* the three revaluations of Gamma and its bump size
GammaCalls ==
  {[fn |-> "gamma", done |-> FALSE, out |-> None,
    pu |-> x[1], p0 |-> x[2], pd |-> x[3], h |-> x[4]] :
     x \in {900, 958, 1574} \X {958, 1239} \X {900, 958, 1574}
             \X {0 - 2, 0 - 1, 1, 2}}

\* DV01 and underlying DV01 as centred differences over 2 * bump
HedgeDeltaCalls ==
  {[fn |-> "hedge_delta", done |-> FALSE, out |-> None,
    dv01 |-> Quot(x[1], 2 * x[3]), udv01 |-> Quot(x[2], 2 * x[3])] :
     x \in {0 - 616, 0 - 1, 0, 1, 616} \X {0 - 5836, 0 - 1, 0, 1, 5836} \X {1, 2}}

Calls ==
  VolInterpCalls \cup BachelierCalls \cup BasketEntryCalls \cup GammaCalls
    \cup HedgeDeltaCalls

Pending(name) == call.fn = name /\ ~call.done

Returns(value) ==
  /\ call' = [call EXCEPT !.done = TRUE, !.out = value]
  /\ UNCHANGED <<peer, cfg, pc, err, bbg_npv, eval_date, node_dates, node_dfs,
                 ex_dates, basket, a, sigma_atm, sigma_inv, delta_spread,
                 sigma_total, npv, greeks, log, opt, gk, hist>>

CallVolInterp ==
  /\ Pending("vol_interp")
  /\ Returns(VolInterp(call.T, call.tenor, call.vol_mat, call.expiry_grid,
                       call.tenor_grid))

CallBachelier ==
  /\ Pending("bachelier")
  /\ Returns([receiver |-> BachelierReceiver(call.F, call.K, call.sigma, call.T,
                                             call.annuity),
              payer |-> BachelierPayer(call.F, call.K, call.sigma, call.T,
                                       call.annuity)])

CallBasketEntry ==
  /\ Pending("basket_entry")
  /\ Returns(BasketEntry(call.c, call.ndates, call.dfs, call.ex, call.bump))

CallGamma ==
  /\ Pending("gamma")
  /\ Returns(Gamma(call.pu, call.p0, call.pd, call.h))

CallHedgeDelta ==
  /\ Pending("hedge_delta")
  /\ Returns(HedgeDelta(call.dv01, call.udv01))

InitCalls == \E k \in Calls : call = k /\ peer = NoPeer /\ Fresh(BaseCfg)

NextCalls ==
  CallVolInterp \/ CallBachelier \/ CallBasketEntry \/ CallGamma \/ CallHedgeDelta

SpecCalls == InitCalls /\ [][NextCalls]_vars

Returned(name) == call.fn = name /\ call.done

----------------------------------------------------------------------------
(* Claims about setup() and the stored curve *)

SetupErrors == {"setup_no_nodes", "setup_bad_df", "setup_curve"}

\* setup() has returned or raised
SetupRan == pc = "ready" \/ (pc = "failed" /\ err \in SetupErrors)

\* no supplied node is dated strictly after the valuation date
NoNodeAfter(c) == \A i \in 1..Len(c.curve) : ~(c.curve[i].d > c.val_date)

\* some supplied node (one whose date parses) has a discount factor <= 0
SuppliedBadDf(c) ==
  \E i \in 1..Len(c.curve) : c.curve[i].d # NoDate /\ c.curve[i].df <= 0

\* some node dated after the valuation date whose value is the last supplied
\* for its date has a discount factor <= 0
KeptBadDf(c) ==
  \E i \in 1..Len(c.curve) :
    /\ c.curve[i].d > c.val_date
    /\ c.curve[i].df <= 0
    /\ \A j \in (i+1)..Len(c.curve) : c.curve[j].d # c.curve[i].d

\* setup() raised before any curve was built and before any oracle call
RaisedBeforePricing ==
  pc = "failed" /\ err \in SetupErrors /\ hist.builds = {} /\ ~hist.priced

\* C7 as stated: if no node is dated strictly after the valuation date, or any
\* supplied node has a discount factor <= 0, setup() raises a validation error
\* before any curve object is built and before any oracle call
C7_AnySuppliedBadDfRaises ==
  (SetupRan /\ (NoNodeAfter(cfg) \/ SuppliedBadDf(cfg))) => RaisedBeforePricing

\* C7 amended: if no node is dated strictly after the valuation date, or a node
\* that survives the date filter and the last-wins dedup has a discount factor
\* <= 0, setup() raises before any curve object is built and before any oracle
\* call; a non-positive node that is filtered out or overwritten is not rejected
C7_KeptBadDfRaises ==
  (SetupRan /\ (NoNodeAfter(cfg) \/ KeptBadDf(cfg))) => RaisedBeforePricing

\* C7 witness: setup() rejected a kept non-positive node of a curve that also
\* has a node after the valuation date
C7_Witness ==
  /\ pc = "failed" /\ err = "setup_bad_df"
  /\ KeptBadDf(cfg) /\ ~NoNodeAfter(cfg) /\ Len(cfg.curve) >= 2

\* index of the last supplied pair with date d
LastIndexOf(c, d) ==
  CHOOSE i \in 1..Len(c.curve) :
    c.curve[i].d = d /\ \A j \in (i+1)..Len(c.curve) : c.curve[j].d # d

\* C8: after setup() succeeds the stored node dates are strictly increasing
\* (hence unique), all strictly after the valuation date, every stored discount
\* factor is > 0, and the discount factor stored for a date is the one supplied
\* last for that date
C8_StoredCurveInvariant ==
  pc = "ready" =>
    /\ Len(node_dates) = Len(node_dfs)
    /\ \A i \in 1..Len(node_dates) :
         /\ node_dates[i] > cfg.val_date
         /\ node_dfs[i] > 0
         /\ \A j \in (i+1)..Len(node_dates) : node_dates[i] < node_dates[j]
         /\ \E k \in 1..Len(cfg.curve) : cfg.curve[k].d = node_dates[i]
         /\ node_dfs[i] = cfg.curve[LastIndexOf(cfg, node_dates[i])].df

\* C8 witness: setup() succeeded on a curve that supplies one date twice with
\* different discount factors, out of date order
C8_Witness ==
  /\ pc = "ready"
  /\ \E i, j \in 1..Len(cfg.curve) :
       /\ i < j
       /\ cfg.curve[i].d = cfg.curve[j].d
       /\ cfg.curve[i].d > cfg.val_date
       /\ cfg.curve[i].df # cfg.curve[j].df
  /\ \E i \in 2..Len(cfg.curve) : cfg.curve[i].d < cfg.curve[i-1].d /\ cfg.curve[i].d > cfg.val_date

----------------------------------------------------------------------------
(* Claims about calibrate() and compute_greeks() *)

GreeksPhases == {"vega_up", "vega_dn", "theta", "done"}
InGreeks == pc \in GreeksPhases \/ (pc = "failed" /\ err \in {"greeks_oracle", "greeks_curve"})

\* calibrate() has returned
CalibrateReturned == pc = "calibrated" \/ InGreeks

Failed(ctx) == \E i \in 1..Len(hist.fails) : hist.fails[i] = ctx

\* C1: after calibrate() has returned, and still after compute_greeks(),
\* sigma_total = sigma_ATM + delta_spread; with a target, delta_spread =
\* sigma_inv - sigma_ATM and sigma_total = sigma_inv
C1_HybridDecomposition ==
  CalibrateReturned =>
    /\ sigma_total = sigma_atm + delta_spread
    /\ bbg_npv # 0 => (delta_spread = sigma_inv - sigma_atm /\ sigma_total = sigma_inv)

\* a later compute_greeks() call is under way on a pricer calibrated to a target
C1_Witness ==
  /\ pc = "theta" /\ greeks # NoGreeks
  /\ bbg_npv = TargetIn /\ delta_spread > 0 /\ sigma_total = sigma_inv

\* C2: with a target of 0 the inverse fit is never invoked, delta_spread is 0,
\* sigma_total is sigma_ATM and the NPV is the full price at sigma_ATM
C2_ZeroTargetSingleStage ==
  (CalibrateReturned /\ bbg_npv = 0) =>
    /\ hist.inv_calls = 0
    /\ delta_spread = 0
    /\ sigma_total = sigma_atm
    /\ npv = FullPrice(a, sigma_atm)

C2_Witness ==
  pc = "calibrated" /\ cfg.npv = 0 /\ bbg_npv = 0 /\ npv > 0 /\ hist.inv_calls = 0

\* C3: a missing benchmark NPV is not an error: loading and construction
\* succeed whatever the entry point
C3_MissingBenchmarkLoads ==
  (cfg.npv = None /\ pc # "start") => ~(pc = "failed" /\ err = "load")

\* the residuals at the ends of the bracket [0.001, 0.05] do not have the same sign:
\* the target is a price the bracket encloses
BracketHolds == InvResidual(XBracketLo) * InvResidual(XBracketHi) <= 0

\* the headline NPV is the target up to the resolution of the root search:
\* sigma_inv is a grid point where the residual is zero or changes sign towards
\* a neighbouring grid point
WithinTolerance ==
  \E x \in XPoints :
    /\ sigma_inv = SigmaOfLog(x)
    /\ npv = FullPrice(a, SigmaOfLog(x))
    /\ \/ InvResidual(x) = 0
       \/ \E y \in XPoints : Abs(x - y) = 1 /\ InvResidual(x) * InvResidual(y) < 0

C5_TrialFailureNeverPropagates ==
  (Failed("atm_trial") \/ Failed("joint_trial") \/ Failed("brent_trial")
     \/ Failed("fallback_trial"))
    => ~(pc = "failed" /\ err = "calibrate_oracle")

\* the oracle failures of compute_greeks() the objective does not swallow
AbortingFailure ==
  Failed("curve_reprice") \/ Failed("vega_atm_trial") \/ Failed("vega_reprice")
    \/ Failed("theta_reprice")

Aborted == pc = "failed" /\ err = "greeks_oracle"

\* the published GreekSet is absent or complete
NoPartialGreekSet ==
  greeks = NoGreeks \/ \A k \in DOMAIN greeks : greeks[k] # Unset

\* no partial GreekSet, calibration results as at the entry of compute_greeks(),
\* and only a step that completes compute_greeks() changes the published set
GreeksAllOrNothing ==
  /\ [](NoPartialGreekSet /\ (InGreeks => CalibState = hist.snap))
  /\ [][pc' # "done" => greeks' = greeks]_vars

\* C6 as stated: any oracle failure during compute_greeks(), a Vega
\* recalibration trial included, aborts it; no partial GreekSet is published
\* and the calibration results are unchanged
C6_AnyFailureAborts ==
  /\ []((AbortingFailure \/ Failed("vega_joint_trial")) => Aborted)
  /\ GreeksAllOrNothing

\* C6 amended: an oracle failure during compute_greeks() aborts it, except at a
\* trial point of a joint (a, sigma) Vega recalibration, which is scored 1e20
\* and lets compute_greeks() go on; no partial GreekSet is published and the
\* calibration results are unchanged
C6_UnswallowedFailureAborts ==
  /\ [](AbortingFailure => Aborted)
  /\ GreeksAllOrNothing

C6_Witness ==
  Aborted /\ Failed("theta_reprice") /\ greeks = NoGreeks /\ CalibState = hist.snap

\* the Theta reprice of this compute_greeks() call was entered: both Vega
\* revaluations are in and its curve was handed to the curve builder
ThetaEntered ==
  /\ cfg.do_theta
  /\ pc \in {"done", "failed"}
  /\ gk.pv_dn # None
  /\ <<cfg.val_date + 1, node_dates>> \in hist.builds

\* the rolled date is on or after the last exercise date
AllLapsed == \A i \in 1..Len(ex_dates) : ex_dates[i] <= cfg.val_date + 1

\* C9: when the rolled date is on or after the last exercise date the Theta
\* reprice returns exactly 0 without invoking the oracle and Theta = 0 - NPV;
\* otherwise the reprice uses exactly the exercise dates strictly after the
\* rolled date
C9_ThetaOfLapsedSchedule ==
  ThetaEntered =>
    IF AllLapsed
    THEN /\ pc = "done" /\ gk.th_run /\ ~gk.th_called /\ gk.pt = 0
         /\ greeks.theta_1d = Quot(0 - npv, 1)
    ELSE gk.th_run =>
           /\ gk.th_called
           /\ gk.th_ed = SelectSeq(ex_dates, LAMBDA d : d > cfg.val_date + 1)

\* the second difference of the price under curve bumps of +h and -h
SecondDifference(h) ==
  RepriceValue(cfg.val_date, BumpDfs(cfg, node_dates, node_dfs, h), sigma_total)
    - 2 * npv
    + RepriceValue(cfg.val_date, BumpDfs(cfg, node_dates, node_dfs, 0 - h), sigma_total)

\* C10: Gamma is (P+ - 2 P0 + P-) / h^2 with P+ and P- priced under curves
\* bumped by the same h that is squared in the denominator
C10_GammaSameBump ==
  pc = "done" =>
    /\ greeks.gamma_1bp.d = cfg.gamma_bp * cfg.gamma_bp
    /\ greeks.gamma_1bp.n = SecondDifference(cfg.gamma_bp)

----------------------------------------------------------------------------
(* Claims about Vega and the hedge Delta *)

InVega == pc \in {"vega_up", "vega_dn"}

\* a vega_bump(bp) call returned its price in this step
VegaReturned == InVega /\ pc' \in {"vega_dn", "theta"} /\ pc' # pc

\* C11: each Vega bump rebuilds the basket under the bumped surface, reruns
\* the stage-1 procedure of the base calibration (joint iff calibrate_a) and
\* reprices at sigma_ATM' + delta_spread with the delta_spread of the base
\* calibration; compute_greeks() never reruns the inverse fit
C11_VegaKeepsSpread ==
  /\ []((InVega /\ opt.kind = "nm") =>
          /\ gk.bk = BuildBasket(cfg, node_dates, node_dfs, ex_dates,
                                 IF pc = "vega_up" THEN cfg.vega_bp ELSE 0 - cfg.vega_bp,
                                 Swaptions(basket))
          /\ (opt.ba \in APoints) = cfg.calib_a)
  /\ [](CalibrateReturned => hist.inv_calls = IF bbg_npv # 0 THEN 1 ELSE 0)
  /\ [](InGreeks => delta_spread = hist.snap[4])
  /\ [][VegaReturned =>
          (IF pc = "vega_up" THEN gk'.pv_up ELSE gk'.pv_dn)
            = BermPrice(node_dfs, ex_dates, eval_date, a, SigmaOf(opt.bx) + delta_spread)]_vars

C11_Witness ==
  /\ pc = "theta" /\ delta_spread > 0 /\ hist.inv_calls = 1
  /\ gk.pv_up # gk.pv_dn /\ gk.pv_up # npv

\* C12: hedge Delta is DV01 / underlying DV01 when the underlying DV01 is
\* beyond the threshold and 0 otherwise; its quotient never has a zero divisor
C12_HedgeDeltaGuarded ==
  Returned("hedge_delta") =>
    LET d == call.dv01
        u == call.udv01
        h == call.out
    IN /\ h.d # 0
       /\ IF u.n # 0 THEN h.n * (d.d * u.n) = (d.n * u.d) * h.d ELSE h.n = 0

C12_Witness ==
  Returned("hedge_delta") /\ call.udv01.n = 0 /\ call.dv01.n # 0 /\ call.out = Quot(0, 1)

----------------------------------------------------------------------------
(* Claims about overlapping runs *)

\* C13: concurrent pricer instances share no mutable state: no step of the
\* second run changes the valuation date, curve, basket, model state, results
\* or execution log the first run observes
C13_RunsShareNothing ==
  [][peer' # peer =>
       UNCHANGED <<eval_date, node_dates, node_dfs, basket, a, sigma_atm,
                   sigma_inv, delta_spread, sigma_total, npv, greeks, log>>]_vars

----------------------------------------------------------------------------
(* Claims about vol_interp, the Bachelier formula and the Gamma formula *)

\* C14: a query exactly on the grid point (i, j) returns vol_mat[i][j], at
\* the first and last index and on grids of length 1 too
C14_GridPointExact ==
  Returned("vol_interp") =>
    \A i \in 1..Len(call.expiry_grid), j \in 1..Len(call.tenor_grid) :
      (call.T = call.expiry_grid[i] /\ call.tenor = call.tenor_grid[j])
        => call.out = call.vol_mat[i][j]

C14_Witness ==
  /\ Returned("vol_interp")
  /\ Len(call.expiry_grid) >= 3 /\ call.T = call.expiry_grid[1]
  /\ Len(call.tenor_grid) = 1 /\ call.tenor = call.tenor_grid[1]
  /\ call.vol_mat[1][1] # call.vol_mat[2][1]
  /\ call.out = call.vol_mat[1][1]

\* x brought to the nearest boundary of the grid
Clamped(g, x) == IF x < g[1] THEN g[1] ELSE IF x > g[Len(g)] THEN g[Len(g)] ELSE x

\* the indices of the grid values next to x on either side
Bracket(g, x) ==
  {i \in 1..Len(g) :
     \/ g[i] <= x /\ \A k \in 1..Len(g) : g[k] <= x => g[k] <= g[i]
     \/ g[i] >= x /\ \A k \in 1..Len(g) : g[k] >= x => g[k] >= g[i]}

\* C15: a query outside the grid returns what the query clamped to the
\* nearest boundary returns, and every result lies between the smallest and
\* the largest of the bracketing corner values
C15_ClampedNoExtrapolation ==
  Returned("vol_interp") =>
    LET xc == Clamped(call.expiry_grid, call.T)
        yc == Clamped(call.tenor_grid, call.tenor)
        corners == {call.vol_mat[i][j] : i \in Bracket(call.expiry_grid, xc),
                                         j \in Bracket(call.tenor_grid, yc)}
    IN /\ call.out = VolInterp(xc, yc, call.vol_mat, call.expiry_grid, call.tenor_grid)
       /\ \E lo \in corners : lo <= call.out
       /\ \E hi \in corners : call.out <= hi

C15_Witness ==
  /\ Returned("vol_interp")
  /\ Len(call.expiry_grid) >= 2 /\ call.T > call.expiry_grid[Len(call.expiry_grid)]
  /\ Len(call.tenor_grid) >= 2 /\ call.tenor < call.tenor_grid[1]
  /\ call.vol_mat[1][1] # call.vol_mat[Len(call.expiry_grid)][1]
  /\ call.out = call.vol_mat[Len(call.expiry_grid)][1]

\* C16: a basket entry whose volatility (Vega bump included) or time to
\* expiry is not positive carries the intrinsic value as its market price
C16_DegenerateIsIntrinsic ==
  Returned("basket_entry") =>
    LET e == call.out
        K == call.c.strike
    IN (e.vol <= 0 \/ e.T <= 0) =>
         e.mkt = e.ann * (IF call.c.is_receiver THEN Max2(K - e.fwd, 0)
                                                ELSE Max2(e.fwd - K, 0))

C16_Witness ==
  /\ Returned("basket_entry")
  /\ call.bump < 0 /\ call.out.vol <= 0 /\ call.out.T > 0
  /\ call.out.vol = call.c.vol_mat[1][1] + call.bump
  /\ call.c.is_receiver /\ call.out.mkt > 0

\* C17: receiver price - payer price = annuity * (K - F), in the regular and
\* in the degenerate case
C17_PutCallParity ==
  Returned("bachelier") =>
    call.out.receiver - call.out.payer = call.annuity * (call.K - call.F)

C17_Witness ==
  /\ Returned("bachelier")
  /\ call.sigma > 0 /\ call.T > 0 /\ call.annuity > 0 /\ call.F > call.K
  /\ call.out.receiver > 0 /\ call.out.payer > call.out.receiver

\* C20: Gamma is the same when the curve bump changes sign, which exchanges
\* P+ and P-, and when the bump size of the divisor changes sign
C20_GammaSignSymmetric ==
  Returned("gamma") =>
    /\ call.out = Gamma(call.pd, call.p0, call.pu, call.h)
    /\ call.out = Gamma(call.pu, call.p0, call.pd, 0 - call.h)
    /\ call.out = Gamma(call.pd, call.p0, call.pu, 0 - call.h)

C20_Witness ==
  /\ Returned("gamma")
  /\ call.pu # call.pd /\ call.h < 0 /\ call.out.n # 0 /\ call.out.d > 0

----------------------------------------------------------------------------
(* Claims about the optimizers of calibrate() *)

\* C18: the mean reversion the joint fit returns lies inside [0.001, 0.50]
\* and never on a boundary
C18_JointInsideOpenInterval ==
  (cfg.calib_a /\ CalibrateReturned) => (A_MIN < a /\ a < A_MAX)

\* C19: when the optimizer of the ATM fit, the joint fit or the inverse fit's
\* fallback search ends without converging, a warning is in the execution
\* log, and calibration goes on with the best point: only an oracle failure
\* aborts it
C19_NonConvergenceLogged ==
  /\ hist.unconverged \subseteq log
  /\ (pc = "failed" /\ err = "calibrate_oracle") => hist.fails # <<>>

----------------------------------------------------------------------------
(* Claims about the exercise schedule, the stored curve and the basket *)

NonDecreasing(q) == \A i \in 1..(Len(q) - 1) : q[i] <= q[i + 1]

\* C21: after a successful setup(), in auto and in custom mode, the exercise
\* dates are in non-decreasing order and each lies strictly before the final
\* date of the underlying swap
C21_ExerciseDatesOrdered ==
  /\ NonDecreasing(ex_dates)
  /\ \A i \in 1..Len(ex_dates) : ex_dates[i] < cfg.swap_end

C21Auto == cfg.ex_mode = "auto" => C21_ExerciseDatesOrdered

\* the 'a was calibrated' flag of the results
ACalibrated == cfg.calib_a

\* C22: no step of compute_greeks() changes the calibrated state: a,
\* sigma_ATM, the inverse sigma, delta_spread, sigma_total, the calibrate_a
\* flag and the headline NPV are after the step what they were before it, in
\* joint mode too, where each Vega recalibration fits its own (a', sigma')
C22_GreeksKeepCalibration ==
  [][(pc \in {"calibrated", "vega_up", "vega_dn", "theta"})
       => (CalibState' = CalibState /\ ACalibrated' = ACalibrated)]_vars

C22_Witness ==
  /\ pc = "done"
  /\ cfg.calib_a
  /\ greeks # NoGreeks
  /\ delta_spread # 0
  /\ CalibState = hist.snap

\* setup() has validated the curve and built the base curve from it
CurveValidated ==
  pc \in {"ready", "stage1", "inverse", "calibrated", "vega_up", "vega_dn", "theta", "done"}
    \/ (pc = "failed" /\ err \in {"calibrate_oracle", "greeks_curve", "greeks_oracle"})

\* the list dfs has one entry per stored node, entry i belonging to node i
AlignedWithNodes(dfs) == DOMAIN dfs = DOMAIN node_dates /\ Len(dfs) = Len(node_dfs)

\* C23: once setup() has validated the curve no step changes the stored node
\* dates or discount factors, and the +h, -h and Theta-rolled lists are new
\* lists with one discount factor per stored node, in node order
C23_StoredCurveKept ==
  /\ [][CurveValidated => (node_dates' = node_dates /\ node_dfs' = node_dfs)]_vars
  /\ [](CurveValidated =>
          /\ AlignedWithNodes(BumpDfs(cfg, node_dates, node_dfs, cfg.dv01_bp))
          /\ AlignedWithNodes(BumpDfs(cfg, node_dates, node_dfs, 0 - cfg.dv01_bp))
          /\ AlignedWithNodes(RollDfs(cfg, node_dates, node_dfs, cfg.val_date + 1)))

C23_Witness ==
  /\ pc = "done"
  /\ gk.th_run
  /\ Len(node_dfs) >= 2
  /\ BumpDfs(cfg, node_dates, node_dfs, cfg.dv01_bp) # node_dfs
  /\ RollDfs(cfg, node_dates, node_dfs, cfg.val_date + 1) # node_dfs

\* calibrate() has built the base basket
BasketBuilt == CurveValidated /\ pc # "ready"

\* bk has exactly one entry per exercise date, in the order of the exercise
\* dates, each with a sub-option of its own
OnePerExerciseDate(bk) ==
  /\ Len(bk) = Len(ex_dates)
  /\ \A i \in 1..Len(bk) : bk[i].T = ex_dates[i] - cfg.val_date
  /\ Cardinality(Swaptions(bk)) = Len(bk)

\* forward, annuity, volatility and market price of every base entry are
\* those of the unbumped surface
BaseEntriesKept ==
  \A i \in 1..Len(basket) :
    LET e == BasketEntry(cfg, node_dates, node_dfs, ex_dates[i], 0)
    IN <<basket[i].fwd, basket[i].ann, basket[i].vol, basket[i].mkt>>
         = <<e.fwd, e.ann, e.vol, e.mkt>>

\* C24: the base basket and each Vega bump basket is a list with exactly one
\* entry per exercise date, in exercise-date order, whose sub-options are
\* newly constructed (none is shared with the base basket), and a bumped
\* build leaves forward, annuity, volatility and market price of the base
\* entries as they were
C24_BasketPerExerciseDate ==
  /\ BasketBuilt => OnePerExerciseDate(basket) /\ BaseEntriesKept
  /\ (InVega /\ opt.kind = "nm") =>
        /\ OnePerExerciseDate(gk.bk)
        /\ Swaptions(gk.bk) \cap Swaptions(basket) = {}

C24_Witness ==
  /\ pc = "vega_dn"
  /\ opt.kind = "nm"
  /\ Len(ex_dates) >= 2
  /\ gk.bk[1].vol # basket[1].vol
  /\ gk.bk[1].mkt # basket[1].mkt

----------------------------------------------------------------------------
(* Claims about the order of steps and the oracle calls *)

\* what the inverse fit holds was priced with the mean reversion a
InversePricedWith(av) ==
  LET res(x) == BermPrice(node_dfs, ex_dates, eval_date, av, SigmaOfLog(x)) - bbg_npv
  IN CASE opt.kind = "nm_inv" -> opt.bval = res(opt.bx) * res(opt.bx)
       [] opt.kind = "root" -> res(opt.bx) = 0
       [] opt.kind = "brent" -> ~SameSign(res(opt.lo), res(opt.hi))
       [] OTHER -> TRUE

\* C25: within calibrate() the basket is built before stage 1 starts, stage
\* 1 has stored its results and ended before the inverse fit starts, the
\* inverse fit prices with the mean reversion stage 1 stored, and the
\* headline NPV comes from the last oracle call of calibrate(), made at
\* sigma_total
C25_CalibrateStepsOrdered ==
  /\ [][(pc' = "stage1" /\ pc # "stage1") =>
          /\ pc = "ready"
          /\ basket' = BuildBasket(cfg, node_dates, node_dfs, ex_dates, 0, {})]_vars
  /\ [][(pc' = "inverse" /\ pc # "inverse") =>
          /\ pc = "stage1"
          /\ a' = TrialA(cfg, opt.ba)
          /\ sigma_atm' = SigmaOf(opt.bx)
          /\ opt' = NoOpt
          /\ hist'.inv_calls = 0]_vars
  /\ [][pc = "inverse" => a' = a /\ sigma_atm' = sigma_atm]_vars
  /\ [](pc = "inverse" => InversePricedWith(a))
  /\ [][(pc' = "calibrated" /\ pc \in {"stage1", "inverse"}) =>
          /\ hist'.last = "headline"
          /\ npv' = BermPrice(node_dfs, ex_dates, eval_date, a', sigma_total')]_vars

C25_Witness ==
  /\ pc = "calibrated"
  /\ hist.last = "headline"
  /\ hist.inv_calls = 1
  /\ cfg.calib_a
  /\ a # cfg.a0
  /\ basket # <<>>

\* the number of full-instrument valuations compute_greeks() makes when it
\* succeeds: two curve-bump reprices if an exercise date is live, two Vega
\* reprices, one Theta reprice if Theta is on and a date is live after the roll
ExpectedValuations ==
  (IF LiveDates(ex_dates, cfg.val_date) # <<>> THEN 2 ELSE 0) + 2
    + (IF cfg.do_theta /\ LiveDates(ex_dates, cfg.val_date + 1) # <<>> THEN 1 ELSE 0)

\* C26 as stated: a successful compute_greeks() run makes at least six
\* full-instrument oracle valuations and exactly two stage-1 sub-calibrations
C26_AtLeastSixValuations ==
  pc = "done" => hist.full >= 6 /\ hist.subcal = 2

\* C26 amended: a successful compute_greeks() run makes between two and five
\* full-instrument oracle valuations (two curve-bump reprices when an exercise
\* date is live, two Vega reprices, one Theta reprice when Theta is on and a
\* date is live after the roll) and exactly two stage-1 sub-calibrations
C26_TwoToFiveValuations ==
  pc = "done" =>
    /\ hist.full = ExpectedValuations
    /\ hist.full \in 2..5
    /\ hist.subcal = 2

C26_Witness ==
  /\ pc = "done"
  /\ hist.full = 5
  /\ hist.subcal = 2
  /\ gk.th_called

\* C27: every repricing, under the valuation date or under the rolled one,
\* returning or raising, leaves the global evaluation date as it found it, so
\* the date is the same after compute_greeks() as at its entry
C27_EvaluationDateRestored ==
  [][(pc \in {"calibrated", "vega_up", "vega_dn", "theta"}) => eval_date' = eval_date]_vars

C27_Witness ==
  /\ pc = "failed"
  /\ err = "greeks_oracle"
  /\ hist.last = "theta_reprice"
  /\ eval_date = cfg.val_date
  /\ eval_date # cfg.val_date + 1

\* the dates in a sequence
DateSet(q) == {q[i] : i \in 1..Len(q)}

\* C28: the base price P0 that Gamma and Theta use and the curve-bumped
\* prices P+ and P- are priced over the same set of exercise dates
C28_SameExerciseDates ==
  (pc \in {"vega_up", "vega_dn", "theta", "done"}) =>
    DateSet(BuildBermDates) = DateSet(RepriceDates(cfg.val_date))

StrictlyIncreasing(q) == \A i \in 1..(Len(q) - 1) : q[i] < q[i + 1]

\* C29: every date sequence handed to the curve builder (reference date
\* followed by the node dates; base, +h / -h and Theta-rolled curve) is
\* strictly increasing, the reference date strictly before the first node
C29_BuilderDatesIncreasing ==
  \A b \in hist.builds : StrictlyIncreasing(<<b[1]>> \o b[2])

\* the same for the curves referenced at the valuation date
C29AtValuationDate ==
  \A b \in hist.builds : b[1] = cfg.val_date => StrictlyIncreasing(<<b[1]>> \o b[2])

\* C30: every volatility passed to the full-instrument oracle over a run
\* (stage-1 check price, inverse-fit trials, headline price, curve-bump and
\* Theta reprices, Vega reprices at sigma_ATM' + delta_spread) is strictly
\* positive
C30_OracleVolsPositive == hist.nonpos = {}

\* the same for the valuations that precede the inverse fit
C30Stage1 == "atm_check" \notin hist.nonpos

\* the same for the Vega reprices after an inverse fit that ended at a
\* positive volatility
C30Vega == sigma_inv > 0 => "vega_reprice" \notin hist.nonpos

====
